---- MODULE Spec2Model ----
(***************************************************************************)
(* Model of the seabird "state" plugin: the ISUPPORT table, the case       *)
(* mapping, the MODE interpreter and the user/channel membership store.    *)
(*                                                                         *)
(* Strings are sequences of code points (Go strings restricted to ASCII),  *)
(* Go maps are TLA+ functions whose DOMAIN is the key set, and Go sets     *)
(* (map[K]bool that only ever stores true) are TLA+ sets.                  *)
(***************************************************************************)
EXTENDS Integers, Sequences, FiniteSets, TLC

VARIABLES
    currentNick,    \* State.currentNick
    userModes,      \* State.userModes   (set of runes)
    chanTypes,      \* State.chanTypes   (set of runes)
    chanModes,      \* State.chanModes   (four strings)
    isupport,       \* State.isupport    (string -> string)
    prefixModes,    \* State.prefixModes  '@' -> 'o'
    modePrefixes,   \* State.modePrefixes 'o' -> '@'
    Channels,       \* State.Channels    (name -> set of member names)
    Users,          \* State.Users       (name -> set of channel names)
    panicked,       \* a handler hit a Go run-time panic
    writes,         \* lines the last handler passed to b.Writef
    effects,        \* mode changes the last MODE handler reported
    last            \* the event the last handler was called with

vars == <<currentNick, userModes, chanTypes, chanModes, isupport, prefixModes,
          modePrefixes, Channels, Users, panicked, writes, effects, last>>

-----------------------------------------------------------------------------
(* Bounds of the model.                                                    *)

\* how many of the raw nicknames of NickPool the events draw from
NumNicks == 3
\* how many of the raw channel names of ChanPool the events draw from
NumChans == 2

-----------------------------------------------------------------------------
(* String helpers (Go's strings package).                                  *)

EmptyMap == [x \in {} |-> 0]

Min(a, b) == IF a < b THEN a ELSE b

\* strings.HasPrefix(s, p)
HasPrefix(s, p) == Len(s) >= Len(p) /\ SubSeq(s, 1, Len(p)) = p

\* strings.IndexRune(s, r) != -1
ContainsRune(s, r) == \E i \in 1..Len(s) : s[i] = r

\* index of the first r in s, 0 when there is none
IndexRune(s, r) ==
    IF ContainsRune(s, r)
    THEN CHOOSE i \in 1..Len(s) : s[i] = r /\ \A j \in 1..(i-1) : s[j] # r
    ELSE 0

\* s[from:] with a 1-based from
Tail0(s, from) == SubSeq(s, from, Len(s))

\* strings.SplitN(s, sep, n) for a one-rune separator and n >= 1
RECURSIVE SplitN(_, _, _)
SplitN(s, sep, n) ==
    LET i == IndexRune(s, sep)
    IN  IF n = 1 \/ i = 0
        THEN <<s>>
        ELSE <<SubSeq(s, 1, i-1)>> \o SplitN(Tail0(s, i+1), sep, n-1)

\* strings.Split(s, sep) for a one-rune separator
RECURSIVE Split(_, _)
Split(s, sep) ==
    LET i == IndexRune(s, sep)
    IN  IF i = 0
        THEN <<s>>
        ELSE <<SubSeq(s, 1, i-1)>> \o Split(Tail0(s, i+1), sep)

-----------------------------------------------------------------------------
(* casemapping.go                                                          *)

\* a faulty ASCIIToLower for comparison: it leaves "Z"
ASCIIToLowerShort(r) == IF r >= 65 /\ r < 90 THEN r + 32 ELSE r

ASCIIToLower(r) == IF r >= 65 /\ r <= 90 THEN r + 32 ELSE r

ASCIIToUpper(r) == IF r >= 97 /\ r <= 122 THEN r - 32 ELSE r

StrictRFC1459ToLower(r) == IF r >= 65 /\ r <= 93 THEN r + 32 ELSE r

StrictRFC1459ToUpper(r) == IF r >= 97 /\ r <= 125 THEN r - 32 ELSE r

\* a faulty RFC1459ToLower for comparison: it leaves "^"
RFC1459ToLowerShort(r) == IF r >= 65 /\ r < 94 THEN r + 32 ELSE r

RFC1459ToLower(r) == IF r >= 65 /\ r <= 94 THEN r + 32 ELSE r

RFC1459ToUpper(r) == IF r >= 97 /\ r <= 126 THEN r - 32 ELSE r

\* "CASEMAPPING", the key ToLower and ToUpper read
KeyCaseMapping == <<67,65,83,69,77,65,80,80,73,78,71>>

\* "ascii"
ValAscii == <<97,115,99,105,105>>

\* "strict-rfc1459"
ValStrictRFC1459 == <<115,116,114,105,99,116,45,114,102,99,49,52,53,57>>

-----------------------------------------------------------------------------
(* isupport.go                                                             *)

\* var isupportDefaults
isupportDefaults ==
    (<<67,65,83,69,77,65,80,80,73,78,71>> :> <<114,102,99,49,52,53,57>>) @@ \* CASEMAPPING: rfc1459
    (<<67,72,65,78,78,69,76,76,69,78>>    :> <<50,48,48>>)                @@ \* CHANNELLEN: 200
    (<<67,72,65,78,84,89,80,69,83>>       :> <<35,38>>)                   @@ \* CHANTYPES: #&
    (<<69,88,67,69,80,84,83>>             :> <<>>)                        @@ \* EXCEPTS
    (<<73,68,67,72,65,78>>                :> <<>>)                        @@ \* IDCHAN
    (<<73,78,86,69,88>>                   :> <<>>)                        @@ \* INVEX
    (<<77,79,68,69,83>>                   :> <<51>>)                      @@ \* MODES: 3
    (<<78,73,67,75,76,69,78>>             :> <<57>>)                      @@ \* NICKLEN: 9
    (<<80,82,69,70,73,88>>                :> <<40,111,118,41,64,43>>)     @@ \* PREFIX: (ov)@+
    (<<83,65,70,69,76,73,83,84>>          :> <<>>)                        @@ \* SAFELIST
    (<<83,84,65,84,85,83,77,83,71>>       :> <<>>)                        @@ \* STATUSMSG
    (<<83,84,68>>                         :> <<>>)                        @@ \* STD
    (<<84,65,82,71,77,65,88>>             :> <<>>)                           \* TARGMAX

\* func (s *State) ISupport(name string) string, on the table isup
ISupport(isup, name) ==
    IF name \in DOMAIN isup THEN isup[name]
    ELSE IF name \in DOMAIN isupportDefaults THEN isupportDefaults[name]
    ELSE <<>>

\* func (s *State) ToLower(name string) string
ToLower(isup, name) ==
    LET cm == ISupport(isup, KeyCaseMapping)
    IN  IF cm = ValAscii THEN [i \in 1..Len(name) |-> ASCIIToLower(name[i])]
        ELSE IF cm = ValStrictRFC1459 THEN [i \in 1..Len(name) |-> StrictRFC1459ToLower(name[i])]
        ELSE [i \in 1..Len(name) |-> RFC1459ToLower(name[i])]

\* func (s *State) ToUpper(name string) string
ToUpper(isup, name) ==
    LET cm == ISupport(isup, KeyCaseMapping)
    IN  IF cm = ValAscii THEN [i \in 1..Len(name) |-> ASCIIToUpper(name[i])]
        ELSE IF cm = ValStrictRFC1459 THEN [i \in 1..Len(name) |-> StrictRFC1459ToUpper(name[i])]
        ELSE [i \in 1..Len(name) |-> RFC1459ToUpper(name[i])]

\* func (s *State) Normalize(name string) string
Normalize(isup, name) == ToLower(isup, name)

-----------------------------------------------------------------------------
(* The plugin's state as one record, so that a handler is an operator from *)
(* state to state and can call the other handlers.                         *)

State ==
    [currentNick  |-> currentNick,  userModes    |-> userModes,
     chanTypes    |-> chanTypes,    chanModes    |-> chanModes,
     isupport     |-> isupport,     prefixModes  |-> prefixModes,
     modePrefixes |-> modePrefixes, Channels     |-> Channels,
     Users        |-> Users,        panicked     |-> panicked,
     writes       |-> <<>>,         effects      |-> <<>>]

\* delete(m, k)
MapDelete(m, k) == [x \in DOMAIN m \ {k} |-> m[x]]

\* m[k] = v
MapSet(m, k, v) == [x \in DOMAIN m \cup {k} |-> IF x = k THEN v ELSE m[x]]

\* prefixRegex = `\(([^)]+)\)(.+)`: the positions where a match can start.
\* [^)]+ runs to the first ')' after the '(' and must not be empty; .+ takes
\* the rest of the string and must not be empty.
PrefixMatchStarts(v) ==
    { i \in 1..Len(v) :
        /\ v[i] = 40
        /\ \E j \in (i+2)..(Len(v)-1) :
              /\ v[j] = 41
              /\ \A k \in (i+1)..(j-1) : v[k] # 41 }

\* prefixRegex.FindStringSubmatch(v): <<>> for nil, else <<group 1, group 2>>
\* of the leftmost match
FindPrefixSubmatch(v) ==
    IF PrefixMatchStarts(v) = {} THEN <<>>
    ELSE LET i == CHOOSE x \in PrefixMatchStarts(v) :
                      \A y \in PrefixMatchStarts(v) : x <= y
             j == CHOOSE y \in (i+2)..(Len(v)-1) :
                      v[y] = 41 /\ \A k \in (i+1)..(y-1) : v[k] # 41
         IN  <<SubSeq(v, i+1, j-1), SubSeq(v, j+1, Len(v))>>

\* the loop filling modePrefixes and prefixModes, from position i on
RECURSIVE FillPrefixes(_, _, _, _)
FillPrefixes(s, modes, prefixes, i) ==
    IF i > Len(modes) THEN s
    ELSE FillPrefixes(
            [s EXCEPT !.modePrefixes = MapSet(@, modes[i], prefixes[i]),
                      !.prefixModes  = MapSet(@, prefixes[i], modes[i])],
            modes, prefixes, i + 1)

\* a faulty case "chanmodes" for comparison: it splits into four parts, so
\* that the fourth takes the rest of the value
CaseChanModesLeaky(s, value) ==
    LET modeSplit == SplitN(value, 44, 4)
    IN  [s EXCEPT !.chanModes =
            [i \in 1..4 |-> IF i <= Len(modeSplit) THEN modeSplit[i] ELSE <<>>]]

\* case "chanmodes" of callback005
CaseChanModes(s, value) ==
    LET modeSplit == SplitN(value, 44, 5)
    IN  [s EXCEPT !.chanModes =
            [i \in 1..4 |-> IF i <= Len(modeSplit) THEN modeSplit[i] ELSE <<>>]]

\* case "prefix" of callback005
CasePrefix(s, value) ==
    LET cleared == [s EXCEPT !.prefixModes = EmptyMap, !.modePrefixes = EmptyMap]
        prefixParts == FindPrefixSubmatch(value)
    IN  IF prefixParts = <<>> \/ Len(prefixParts[1]) # Len(prefixParts[2])
        THEN cleared
        ELSE FillPrefixes(cleared, prefixParts[1], prefixParts[2], 1)

\* case "chantypes": the channel-type set is rebuilt from the characters of
\* the value
CaseChanTypes(s, value) ==
    [s EXCEPT !.chanTypes = { value[i] : i \in 1..Len(value) }]

\* "chanmodes"
KeyChanModes == <<99,104,97,110,109,111,100,101,115>>

\* "prefix"
KeyPrefix == <<112,114,101,102,105,120>>

\* "chantypes"
KeyChanTypes == <<99,104,97,110,116,121,112,101,115>>

\* the switch of callback005 on split[0], with split[1] already resolved
SpecialTokens(s, key, value) ==
    IF key = KeyChanModes THEN CaseChanModes(s, value)
    ELSE IF key = KeyPrefix THEN CasePrefix(s, value)
    ELSE IF key = KeyChanTypes THEN CaseChanTypes(s, value)
    ELSE s

\* a variant of the iteration for comparison: a token -KEY rebuilds what is
\* derived from KEY, from the static default of KEY
Token005Resetting(s, param) ==
    LET split == SplitN(param, 61, 2)
        key   == Normalize(s.isupport, split[1])
        value == IF Len(split) # 2 THEN <<>> ELSE split[2]
        name  == IF HasPrefix(key, <<45>>) THEN Tail0(key, 2) ELSE key
        s1    == IF HasPrefix(key, <<45>>)
                 THEN [s EXCEPT !.isupport = MapDelete(@, name)]
                 ELSE [s EXCEPT !.isupport = MapSet(@, key, value)]
    IN  SpecialTokens(s1, name,
            IF name \in DOMAIN s1.isupport THEN s1.isupport[name]
            ELSE ISupport(EmptyMap, ToUpper(s1.isupport, name)))

\* one iteration of the loop of callback005, on m.Params[i] = param
Token005(s, param) ==
    LET split == SplitN(param, 61, 2)
        key   == Normalize(s.isupport, split[1])
        value == IF Len(split) # 2 THEN <<>> ELSE split[2]
        s1    == IF HasPrefix(key, <<45>>)
                 THEN [s EXCEPT !.isupport = MapDelete(@, Tail0(key, 2))]
                 ELSE [s EXCEPT !.isupport = MapSet(@, key, value)]
    IN  SpecialTokens(s1, key, ISupport(s1.isupport, key))

\* the loop of callback005 from the (1-based) position i on: every param but
\* the first and the last
RECURSIVE Loop005(_, _, _)
Loop005(s, params, i) ==
    IF i >= Len(params) THEN s
    ELSE Loop005(Token005(s, params[i]), params, i + 1)

\* func (s *State) callback005(b *bot.Bot, m *irc.Message)
callback005(s, params) == Loop005(s, params, 2)

\* func (s *State) callback004(b *bot.Bot, m *irc.Message), umodes = m.Params[3]
callback004(s, umodes) ==
    [s EXCEPT !.userModes = { umodes[i] : i \in 1..Len(umodes) }]

\* the keys of isupportDefaults in the order of their declaration
DefaultKeyList ==
    << <<67,65,83,69,77,65,80,80,73,78,71>>, <<67,72,65,78,78,69,76,76,69,78>>,
       <<67,72,65,78,84,89,80,69,83>>, <<69,88,67,69,80,84,83>>,
       <<73,68,67,72,65,78>>, <<73,78,86,69,88>>, <<77,79,68,69,83>>,
       <<78,73,67,75,76,69,78>>, <<80,82,69,70,73,88>>,
       <<83,65,70,69,76,73,83,84>>, <<83,84,65,84,85,83,77,83,71>>,
       <<83,84,68>>, <<84,65,82,71,77,65,88>> >>

\* Orders in which `for k := range isupportDefaults` may enumerate the keys.
\* Go leaves the order open; the model takes every rotation of the declared
\* order, forwards and backwards, so that every key is first in some order
\* and every pair of keys occurs in both relative orders.
RangeOrders ==
    LET n == Len(DefaultKeyList)
    IN  { [i \in 1..n |-> DefaultKeyList[((i - 1 + r) % n) + 1]] : r \in 0..(n-1) }
        \cup
        { [i \in 1..n |-> DefaultKeyList[((n - i + r) % n) + 1]] : r \in 0..(n-1) }

\* the orders the 001 events of the state machine take: the declared order,
\* forwards and backwards
WelcomeOrders ==
    LET n == Len(DefaultKeyList)
    IN  { DefaultKeyList, [i \in 1..n |-> DefaultKeyList[n - i + 1]] }

\* "are supported by this server."
TrailingSupported ==
    <<97,114,101,32,115,117,112,112,111,114,116,101,100,32,98,121,32,116,104,
      105,115,32,115,101,114,118,101,114,46>>

\* "Oiorw"
DefaultUserModes == <<79,105,111,114,119>>

\* a faulty clear() for comparison: it keeps the capability table and relies
\* on the "-KEY" tokens to empty it
clearByTokensOnly(s, order) ==
    LET s0 == [s EXCEPT !.chanModes    = << <<>>, <<>>, <<>>, <<>> >>,
                        !.chanTypes    = {},
                        !.userModes    = {},
                        !.prefixModes  = EmptyMap,
                        !.modePrefixes = EmptyMap,
                        !.Channels     = EmptyMap,
                        !.Users        = EmptyMap]
        s1 == callback004(s0, DefaultUserModes)
        params == [i \in 1..Len(order) |-> <<45>> \o order[i]] \o <<TrailingSupported>>
    IN  callback005(s1, params)

\* func (s *State) clear(), with the keys ranged over in the order `order`
clear(s, order) ==
    LET s0 == [s EXCEPT !.isupport     = EmptyMap,
                        !.chanModes    = << <<>>, <<>>, <<>>, <<>> >>,
                        !.chanTypes    = {},
                        !.userModes    = {},
                        !.prefixModes  = EmptyMap,
                        !.modePrefixes = EmptyMap,
                        !.Channels     = EmptyMap,
                        !.Users        = EmptyMap]
        s1 == callback004(s0, DefaultUserModes)
        params == [i \in 1..Len(order) |-> <<45>> \o order[i]] \o <<TrailingSupported>>
    IN  callback005(s1, params)

-----------------------------------------------------------------------------
(* The membership store.                                                   *)

\* the orders in which a `for k := range m` over the key set S may run
Perms(S) ==
    { f \in [1..Cardinality(S) -> S] :
        \A i, j \in 1..Cardinality(S) : f[i] = f[j] => i = j }

\* func (s *State) ensureChannel(name string) *ChannelState
ensureChannel(s, name) ==
    LET normalizedName == Normalize(s.isupport, name)
    IN  IF normalizedName \in DOMAIN s.Channels THEN s
        ELSE [s EXCEPT !.Channels = MapSet(@, normalizedName, {})]

\* func (s *State) ensureUser(name string) *UserState
ensureUser(s, name) ==
    LET normalizedName == Normalize(s.isupport, name)
    IN  IF normalizedName \in DOMAIN s.Users THEN s
        ELSE [s EXCEPT !.Users = MapSet(@, normalizedName, {})]

\* the loop of renameUser over the channels left in todo; s.Channels[cname]
\* of a channel that is not in the map is nil, and c.Users of nil panics
RECURSIVE RenameInChannels(_, _, _, _)
RenameInChannels(s, todo, normalizedOld, normalizedNew) ==
    IF todo = <<>> THEN s
    ELSE LET cname == Head(todo)
         IN  IF cname \notin DOMAIN s.Channels
             THEN [s EXCEPT !.panicked = TRUE]
             ELSE RenameInChannels(
                    [s EXCEPT !.Channels[cname] = (@ \ {normalizedOld}) \cup {normalizedNew}],
                    Tail(todo), normalizedOld, normalizedNew)

\* func (s *State) renameUser(oldName, newName string), ranging over the
\* user's channels in the order `order`
renameUser(s, oldName, newName, order) ==
    LET normalizedOld == Normalize(s.isupport, oldName)
        normalizedNew == Normalize(s.isupport, newName)
        s1 == ensureUser(s, oldName)
        u  == s1.Users[normalizedOld]
        s2 == [s1 EXCEPT !.Users = MapSet(MapDelete(@, normalizedOld), normalizedNew, u)]
    IN  RenameInChannels(s2, order, normalizedOld, normalizedNew)

\* a faulty ensureUserInChannel for comparison: it flips the membership
\* instead of setting it
ensureUserInChannelFlips(s, user, channel) ==
    LET normalizedUser    == Normalize(s.isupport, user)
        normalizedChannel == Normalize(s.isupport, channel)
        s1 == ensureChannel(ensureUser(s, user), channel)
        member == normalizedUser \in s1.Channels[normalizedChannel]
    IN  [s1 EXCEPT !.Channels[normalizedChannel] =
                        IF member THEN @ \ {normalizedUser} ELSE @ \cup {normalizedUser},
                   !.Users[normalizedUser] =
                        IF member THEN @ \ {normalizedChannel} ELSE @ \cup {normalizedChannel}]

\* func (s *State) ensureUserInChannel(user, channel string)
ensureUserInChannel(s, user, channel) ==
    LET normalizedUser    == Normalize(s.isupport, user)
        normalizedChannel == Normalize(s.isupport, channel)
        s1 == ensureChannel(ensureUser(s, user), channel)
    IN  [s1 EXCEPT !.Channels[normalizedChannel] = @ \cup {normalizedUser},
                   !.Users[normalizedUser] = @ \cup {normalizedChannel}]

\* the members of a set in the order in which they occur in rank
RECURSIVE InOrder(_, _)
InOrder(S, rank) ==
    IF rank = <<>> THEN <<>>
    ELSE IF Head(rank) \in S THEN <<Head(rank)>> \o InOrder(S, Tail(rank))
    ELSE InOrder(S, Tail(rank))

\* func (s *State) ensureUserNotInChannel(user, channel string); the copy of
\* c.Users made for the teardown loop lists the members in the order in
\* which they occur in rank. The result carries in .depth the deepest
\* nesting of calls reached and in .calls the calls made, each with its
\* nesting and its user.
RECURSIVE ensureUserNotInChannelAt(_, _, _, _, _)
RECURSIVE TeardownLoop(_, _, _, _, _)
TeardownLoop(s, users, channel, rank, depth) ==
    IF users = <<>> THEN s
    ELSE TeardownLoop(ensureUserNotInChannelAt(s, Head(users), channel, rank, depth),
                      Tail(users), channel, rank, depth)

\* a faulty ensureUserNotInChannel for comparison: the removal of a member
\* during the teardown tears the channel down as well
ensureUserNotInChannelNested(s, user, channel, rank, depth) ==
    LET normalizedUser    == Normalize(s.isupport, user)
        normalizedChannel == Normalize(s.isupport, channel)
        s1 == ensureChannel(ensureUser(s, user), channel)
        s2 == [s1 EXCEPT !.Channels[normalizedChannel] = @ \ {normalizedUser},
                         !.Users[normalizedUser] = @ \ {normalizedChannel}]
        s3 == IF Cardinality(s2.Users[normalizedUser]) < 1
              THEN [s2 EXCEPT !.Users = MapDelete(@, normalizedUser)]
              ELSE s2
        s4 == [s3 EXCEPT !.depth = IF depth > @ THEN depth ELSE @,
                         !.calls = Append(@, <<depth, user>>)]
    IN  IF user = s.currentNick \/ depth = 2
        THEN LET users == InOrder(s4.Channels[normalizedChannel], rank)
                 s5 == TeardownLoop(s4, users, channel, rank, depth + 1)
             IN  [s5 EXCEPT !.Channels = MapDelete(@, normalizedChannel)]
        ELSE s4

ensureUserNotInChannelAt(s, user, channel, rank, depth) ==
    LET normalizedUser    == Normalize(s.isupport, user)
        normalizedChannel == Normalize(s.isupport, channel)
        s1 == ensureChannel(ensureUser(s, user), channel)
        s2 == [s1 EXCEPT !.Channels[normalizedChannel] = @ \ {normalizedUser},
                         !.Users[normalizedUser] = @ \ {normalizedChannel}]
        s3 == IF Cardinality(s2.Users[normalizedUser]) < 1
              THEN [s2 EXCEPT !.Users = MapDelete(@, normalizedUser)]
              ELSE s2
        s4 == [s3 EXCEPT !.depth = IF depth > @ THEN depth ELSE @,
                         !.calls = Append(@, <<depth, user>>)]
    IN  IF user = s.currentNick
        THEN LET users == InOrder(s4.Channels[normalizedChannel], rank)
                 s5 == TeardownLoop(s4, users, channel, rank, depth + 1)
             IN  [s5 EXCEPT !.Channels = MapDelete(@, normalizedChannel)]
        ELSE s4

\* s with an empty record of the calls
Traced(s) ==
    [f \in DOMAIN s \cup {"depth", "calls"} |->
        IF f = "depth" THEN 0 ELSE IF f = "calls" THEN <<>> ELSE s[f]]

ensureUserNotInChannel(s, user, channel, rank) ==
    LET r == ensureUserNotInChannelAt(Traced(s), user, channel, rank, 1)
    IN  [f \in DOMAIN s |-> r[f]]

\* the loop of removeUser over its copy of the user's channels
RECURSIVE RemoveFromChannels(_, _, _, _)
RemoveFromChannels(s, name, channels, rank) ==
    IF channels = <<>> THEN s
    ELSE RemoveFromChannels(ensureUserNotInChannel(s, name, Head(channels), rank),
                            name, Tail(channels), rank)

\* func (s *State) removeUser(name string); `channels` is the copy of the
\* user's channel set in the order the range produced it
removeUser(s, name, channels, rank) ==
    RemoveFromChannels(ensureUser(s, name), name, channels, rank)

\* func (s *State) UserInChannel(user, channel string) bool
UserInChannel(s, user, channel) ==
    LET u == Normalize(s.isupport, user)
        c == Normalize(s.isupport, channel)
    IN  IF c \notin DOMAIN s.Channels THEN FALSE
        ELSE u \in s.Channels[c]

\* a faulty IsChannel for comparison: it looks for a channel type anywhere in
\* the name
IsChannelAnywhere(s, name) == \E i \in 1..Len(name) : name[i] \in s.chanTypes

\* func (s *State) IsChannel(name string) bool
IsChannel(s, name) == Len(name) # 0 /\ name[1] \in s.chanTypes

-----------------------------------------------------------------------------
(* The event handlers.                                                     *)

\* b.Writef("WHO :%s", name)
WriteWho(s, name) == [s EXCEPT !.writes = Append(@, <<87,72,79,32,58>> \o name)]

\* a faulty joinCallback for comparison: it does not ask whether the bot is
\* in the channel
joinUnguarded(s, uname, cname) ==
    ensureUserInChannel(WriteWho(s, IF uname = s.currentNick THEN cname ELSE uname),
                        uname, cname)

\* a faulty joinCallback for comparison: it asks for the whole channel also
\* when another user joins
joinWhoChannel(s, uname, cname) ==
    IF uname # s.currentNick /\ ~UserInChannel(s, s.currentNick, cname)
    THEN s
    ELSE ensureUserInChannel(WriteWho(s, cname), uname, cname)

\* func (s *State) joinCallback: cname = m.Params[0], uname = m.Prefix.Name
joinCallback(s, uname, cname) ==
    IF uname = s.currentNick
    THEN ensureUserInChannel(WriteWho(s, cname), uname, cname)
    ELSE IF ~UserInChannel(s, s.currentNick, cname)
         THEN s
         ELSE ensureUserInChannel(WriteWho(s, uname), uname, cname)

\* a faulty partCallback for comparison: when the bot leaves it deletes the
\* channel, but leaves the channel's members as they are
partKeepingMembers(s, uname, cname, rank) ==
    LET normalizedUser    == Normalize(s.isupport, uname)
        normalizedChannel == Normalize(s.isupport, cname)
        s1 == ensureChannel(ensureUser(s, uname), cname)
        s2 == [s1 EXCEPT !.Channels[normalizedChannel] = @ \ {normalizedUser},
                         !.Users[normalizedUser] = @ \ {normalizedChannel}]
        s3 == IF Cardinality(s2.Users[normalizedUser]) < 1
              THEN [s2 EXCEPT !.Users = MapDelete(@, normalizedUser)]
              ELSE s2
    IN  IF uname = s.currentNick
        THEN [s3 EXCEPT !.Channels = MapDelete(@, normalizedChannel)]
        ELSE s3

\* func (s *State) partCallback: cname = m.Params[0], uname = m.Prefix.Name
partCallback(s, uname, cname, rank) == ensureUserNotInChannel(s, uname, cname, rank)

\* a faulty kickCallback for comparison: it deletes a channel the kick
\* leaves without members
kickDroppingEmpty(s, uname, cname, rank) ==
    LET t == ensureUserNotInChannel(s, uname, cname, rank)
        normalizedChannel == Normalize(s.isupport, cname)
    IN  IF normalizedChannel \in DOMAIN t.Channels /\ t.Channels[normalizedChannel] = {}
        THEN [t EXCEPT !.Channels = MapDelete(@, normalizedChannel)]
        ELSE t

\* func (s *State) kickCallback: cname = m.Params[0], uname = m.Params[1]
kickCallback(s, uname, cname, rank) == ensureUserNotInChannel(s, uname, cname, rank)

\* func (s *State) quitCallback: uname = m.Prefix.Name
quitCallback(s, uname, channels, rank) == removeUser(s, uname, channels, rank)

\* func (s *State) nickCallback: oldNick = m.Prefix.Name, newNick = m.Params[0]
nickCallback(s, oldNick, newNick, order) ==
    LET s1 == IF oldNick = s.currentNick
              THEN [s EXCEPT !.currentNick = newNick]
              ELSE s
    IN  renameUser(s1, oldNick, newNick, order)

\* func (s *State) callback001: m.Params[0] is the nickname
callback001(s, nick, order) == clear([s EXCEPT !.currentNick = nick], order)

\* func (s *State) callback352: flags = m.Params[6]; flags[0] of an empty
\* string is an index out of range
callback352(s, flags) ==
    IF Len(flags) = 0 THEN [s EXCEPT !.panicked = TRUE] ELSE s

\* a faulty trim for comparison: it takes one prefix character only
TrimPrefixesOnce(s, name) ==
    IF name # <<>> /\ Head(name) \in DOMAIN s.prefixModes
    THEN Tail(name)
    ELSE name

\* strings.TrimLeftFunc(name, f) with f(r) = (r is a key of prefixModes)
RECURSIVE TrimPrefixes(_, _)
TrimPrefixes(s, name) ==
    IF name # <<>> /\ Head(name) \in DOMAIN s.prefixModes
    THEN TrimPrefixes(s, Tail(name))
    ELSE name

\* the loop of callback353 over strings.Split(m.Trailing(), " ")
RECURSIVE NamesLoop(_, _, _)
NamesLoop(s, channel, names) ==
    IF names = <<>> THEN s
    ELSE NamesLoop(ensureUserInChannel(s, TrimPrefixes(s, Head(names)), channel),
                   channel, Tail(names))

\* func (s *State) callback353: channel = m.Params[2]
callback353(s, channel, trailing) == NamesLoop(s, channel, Split(trailing, 32))

\* what one log line of modeCallback reports: the branch taken, the polarity,
\* the mode character and the parameter popped for it (<<>> when none was)
Effect(class, state, v, param) ==
    [class |-> class, state |-> state, mode |-> v, param |-> param]

\* a faulty loop for comparison: a character of the third class takes a
\* parameter also when it is unset
RECURSIVE ModeLoopLimitPops(_, _, _, _, _, _, _)
ModeLoopLimitPops(s, isChannel, modestring, i, msgParams, state, out) ==
    IF i > Len(modestring) THEN out
    ELSE
      LET v == modestring[i]
          Continue(p, st, o) == ModeLoopLimitPops(s, isChannel, modestring, i + 1, p, st, o)
          Pop(class) ==
              IF Len(msgParams) = 0
              THEN Continue(msgParams, state, out)
              ELSE Continue(Tail(msgParams), state,
                            Append(out, Effect(class, state, v, <<Head(msgParams)>>)))
          NoPop(class) ==
              Continue(msgParams, state, Append(out, Effect(class, state, v, <<>>)))
      IN  IF v = 43 \/ v = 45 THEN Continue(msgParams, v, out)
          ELSE IF isChannel THEN
                 IF ContainsRune(s.chanModes[1], v) THEN Pop("list")
                 ELSE IF ContainsRune(s.chanModes[2], v) THEN Pop("key")
                 ELSE IF ContainsRune(s.chanModes[3], v)
                      THEN Pop("limit")
                 ELSE IF ContainsRune(s.chanModes[4], v) THEN NoPop("setting")
                 ELSE IF v \in DOMAIN s.modePrefixes THEN Pop("prefix")
                 ELSE Continue(msgParams, state, out)
          ELSE NoPop("user")

\* a faulty loop for comparison: a character that finds no parameter ends
\* the handling of the mode string
RECURSIVE ModeLoopAborts(_, _, _, _, _, _, _)
ModeLoopAborts(s, isChannel, modestring, i, msgParams, state, out) ==
    IF i > Len(modestring) THEN out
    ELSE
      LET v == modestring[i]
          Continue(p, st, o) == ModeLoopAborts(s, isChannel, modestring, i + 1, p, st, o)
          Pop(class) ==
              IF Len(msgParams) = 0
              THEN out
              ELSE Continue(Tail(msgParams), state,
                            Append(out, Effect(class, state, v, <<Head(msgParams)>>)))
          NoPop(class) ==
              Continue(msgParams, state, Append(out, Effect(class, state, v, <<>>)))
      IN  IF v = 43 \/ v = 45 THEN Continue(msgParams, v, out)
          ELSE IF isChannel THEN
                 IF ContainsRune(s.chanModes[1], v) THEN Pop("list")
                 ELSE IF ContainsRune(s.chanModes[2], v) THEN Pop("key")
                 ELSE IF ContainsRune(s.chanModes[3], v)
                      THEN IF state = 43 THEN Pop("limit") ELSE NoPop("limit")
                 ELSE IF ContainsRune(s.chanModes[4], v) THEN NoPop("setting")
                 ELSE IF v \in DOMAIN s.modePrefixes THEN Pop("prefix")
                 ELSE Continue(msgParams, state, out)
          ELSE NoPop("user")

\* a faulty loop for comparison: popParam does not move on
RECURSIVE ModeLoopReusesParam(_, _, _, _, _, _, _)
ModeLoopReusesParam(s, isChannel, modestring, i, msgParams, state, out) ==
    IF i > Len(modestring) THEN out
    ELSE
      LET v == modestring[i]
          Continue(p, st, o) == ModeLoopReusesParam(s, isChannel, modestring, i + 1, p, st, o)
          Pop(class) ==
              IF Len(msgParams) = 0
              THEN Continue(msgParams, state, out)
              ELSE Continue(msgParams, state,
                            Append(out, Effect(class, state, v, <<Head(msgParams)>>)))
          NoPop(class) ==
              Continue(msgParams, state, Append(out, Effect(class, state, v, <<>>)))
      IN  IF v = 43 \/ v = 45 THEN Continue(msgParams, v, out)
          ELSE IF isChannel THEN
                 IF ContainsRune(s.chanModes[1], v) THEN Pop("list")
                 ELSE IF ContainsRune(s.chanModes[2], v) THEN Pop("key")
                 ELSE IF ContainsRune(s.chanModes[3], v)
                      THEN IF state = 43 THEN Pop("limit") ELSE NoPop("limit")
                 ELSE IF ContainsRune(s.chanModes[4], v) THEN NoPop("setting")
                 ELSE IF v \in DOMAIN s.modePrefixes THEN Pop("prefix")
                 ELSE Continue(msgParams, state, out)
          ELSE NoPop("user")

\* a faulty loop for comparison: it looks for a permission mode first
RECURSIVE ModeLoopPrefixFirst(_, _, _, _, _, _, _)
ModeLoopPrefixFirst(s, isChannel, modestring, i, msgParams, state, out) ==
    IF i > Len(modestring) THEN out
    ELSE
      LET v == modestring[i]
          Continue(p, st, o) == ModeLoopPrefixFirst(s, isChannel, modestring, i + 1, p, st, o)
          Pop(class) ==
              IF Len(msgParams) = 0
              THEN Continue(msgParams, state, out)
              ELSE Continue(Tail(msgParams), state,
                            Append(out, Effect(class, state, v, <<Head(msgParams)>>)))
          NoPop(class) ==
              Continue(msgParams, state, Append(out, Effect(class, state, v, <<>>)))
      IN  IF v = 43 \/ v = 45 THEN Continue(msgParams, v, out)
          ELSE IF isChannel THEN
                 IF v \in DOMAIN s.modePrefixes THEN Pop("prefix")
                 ELSE IF ContainsRune(s.chanModes[1], v) THEN Pop("list")
                 ELSE IF ContainsRune(s.chanModes[2], v) THEN Pop("key")
                 ELSE IF ContainsRune(s.chanModes[3], v)
                      THEN IF state = 43 THEN Pop("limit") ELSE NoPop("limit")
                 ELSE IF ContainsRune(s.chanModes[4], v) THEN NoPop("setting")
                 ELSE Continue(msgParams, state, out)
          ELSE NoPop("user")

\* the loop of modeCallback from position i of the mode string on; msgParams
\* is what popParam has left, state the current polarity, out the log so far
RECURSIVE ModeLoop(_, _, _, _, _, _, _)
ModeLoop(s, isChannel, modestring, i, msgParams, state, out) ==
    IF i > Len(modestring) THEN out
    ELSE
      LET v == modestring[i]
          Continue(p, st, o) == ModeLoop(s, isChannel, modestring, i + 1, p, st, o)
          Pop(class) ==
              IF Len(msgParams) = 0
              THEN Continue(msgParams, state, out)
              ELSE Continue(Tail(msgParams), state,
                            Append(out, Effect(class, state, v, <<Head(msgParams)>>)))
          NoPop(class) ==
              Continue(msgParams, state, Append(out, Effect(class, state, v, <<>>)))
      IN  IF v = 43 \/ v = 45 THEN Continue(msgParams, v, out)
          ELSE IF isChannel THEN
                 IF ContainsRune(s.chanModes[1], v) THEN Pop("list")
                 ELSE IF ContainsRune(s.chanModes[2], v) THEN Pop("key")
                 ELSE IF ContainsRune(s.chanModes[3], v)
                      THEN IF state = 43 THEN Pop("limit") ELSE NoPop("limit")
                 ELSE IF ContainsRune(s.chanModes[4], v) THEN NoPop("setting")
                 ELSE IF v \in DOMAIN s.modePrefixes THEN Pop("prefix")
                 ELSE Continue(msgParams, state, out)
          ELSE NoPop("user")

\* a faulty modeCallback for comparison: it takes every target for a channel
modeCallbackAsChannel(s, target, modestring, msgParams) ==
    [s EXCEPT !.effects = ModeLoop(s, TRUE, modestring, 1, msgParams, 43, <<>>)]

\* func (s *State) modeCallback: target = m.Params[0], modestring =
\* m.Params[1], msgParams = m.Params[2:]
modeCallback(s, target, modestring, msgParams) ==
    [s EXCEPT !.effects =
        ModeLoop(s, IsChannel(s, target), modestring, 1, msgParams, 43, <<>>)]

-----------------------------------------------------------------------------
(* What the server may send.                                               *)

\* raw nicknames: "b", "B", "a", "A", "c"
NickPool == << <<98>>, <<66>>, <<97>>, <<65>>, <<99>> >>

\* raw channel names: "#x", "&y", "#X"
ChanPool == << <<35,120>>, <<38,121>>, <<35,88>> >>

Nicks == { NickPool[i] : i \in 1..Min(NumNicks, Len(NickPool)) }

Chans == { ChanPool[i] : i \in 1..Min(NumChans, Len(ChanPool)) }

\* the token lists of the 005 messages:
\*   PREFIX=(ov)@+ CHANTYPES=#& CHANMODES=b,k,l,nt CASEMAPPING=ascii
Msgs005 ==
    { << <<80,82,69,70,73,88,61,40,111,118,41,64,43>>,
         <<67,72,65,78,84,89,80,69,83,61,35,38>>,
         <<67,72,65,78,77,79,68,69,83,61,98,44,107,44,108,44,110,116>>,
         <<67,65,83,69,77,65,80,80,73,78,71,61,97,115,99,105,105>> >> }

\* the token lists of the 005 messages of a server whose mode classes and
\* permission modes share characters:
\*   CHANMODES=ab,bk,kl,lo PREFIX=(ov)@+ CHANTYPES=#
OverlapMsgs005 ==
    { << <<67,72,65,78,77,79,68,69,83,61,97,98,44,98,107,44,107,108,44,108,111>>,
         <<80,82,69,70,73,88,61,40,111,118,41,64,43>>,
         <<67,72,65,78,84,89,80,69,83,61,35>> >> }

\* the name lists of the 353 messages: "a B"
Names353 == { <<97,32,66>> }

\* the name lists of the 353 messages with prefixes: "@a +B"
PrefixedNames353 == { <<64,97,32,43,66>> }

\* the flags of the 352 messages: "H@", ""
Flags352 == { <<72,64>>, <<>> }

\* the user modes of the 004 messages: "Oiorw"
UModes004 == { <<79,105,111,114,119>> }

\* the MODE messages: target, mode string, parameters
\*   #x +o-v a b;  #x +ko-l+n a;  b +i-o a
ModeMsgs ==
    { << <<35,120>>, <<43,111,45,118>>, << <<97>>, <<98>> >> >>,
      << <<35,120>>, <<43,107,111,45,108,43,110>>, << <<97>> >> >>,
      << <<98>>, <<43,105,45,111>>, << <<97>> >> >> }

\* the members of channel in s, {} when the channel is unknown
Members(s, channel) ==
    LET c == Normalize(s.isupport, channel)
    IN  IF c \in DOMAIN s.Channels THEN s.Channels[c] ELSE {}

\* the channel set of user in s, {} when the user is unknown
ChannelsOf(s, user) ==
    LET u == Normalize(s.isupport, user)
    IN  IF u \in DOMAIN s.Users THEN s.Users[u] ELSE {}

\* the orders in which the teardown loops of a removal of user from the
\* channels cs may list the other members
Ranks(s, user, cs) ==
    IF user = s.currentNick
    THEN Perms(UNION { Members(s, c) : c \in cs } \ {Normalize(s.isupport, user)})
    ELSE { <<>> }

-----------------------------------------------------------------------------
(* The state machine: one action per registered handler.                   *)

\* the handler called and whether the event was about the bot itself (its
\* actor, or the kicked user, is the current nick as the handler compares it);
\* for a 001, full tells whether it found users and advertised capabilities
Event(kind, self) == [kind |-> kind, self |-> self, full |-> FALSE]

\* the handler returned t for the event ev
Install(t, ev) ==
    /\ currentNick'  = t.currentNick
    /\ userModes'    = t.userModes
    /\ chanTypes'    = t.chanTypes
    /\ chanModes'    = t.chanModes
    /\ isupport'     = t.isupport
    /\ prefixModes'  = t.prefixModes
    /\ modePrefixes' = t.modePrefixes
    /\ Channels'     = t.Channels
    /\ Users'        = t.Users
    /\ panicked'     = t.panicked
    /\ writes'       = t.writes
    /\ effects'      = t.effects
    /\ last'         = ev

\* s := &State{}
ZeroState ==
    [currentNick  |-> <<>>,     userModes    |-> {},
     chanTypes    |-> {},       chanModes    |-> <<>>,
     isupport     |-> EmptyMap, prefixModes  |-> EmptyMap,
     modePrefixes |-> EmptyMap, Channels     |-> EmptyMap,
     Users        |-> EmptyMap, panicked     |-> FALSE,
     writes       |-> <<>>,     effects      |-> <<>>]

\* func NewStatePlugin: s := &State{}; s.clear()
NewStatePlugin(order) == clear(ZeroState, order)

Init ==
    \E order \in RangeOrders :
        LET t == NewStatePlugin(order)
        IN  /\ currentNick  = t.currentNick
            /\ userModes    = t.userModes
            /\ chanTypes    = t.chanTypes
            /\ chanModes    = t.chanModes
            /\ isupport     = t.isupport
            /\ prefixModes  = t.prefixModes
            /\ modePrefixes = t.modePrefixes
            /\ Channels     = t.Channels
            /\ Users        = t.Users
            /\ panicked     = t.panicked
            /\ writes       = t.writes
            /\ effects      = t.effects
            /\ last         = Event("NEW", FALSE)

Join ==
    \E u \in Nicks, c \in Chans :
        /\ ~panicked
        /\ Install(joinCallback(State, u, c), Event("JOIN", u = currentNick))

Part ==
    \E u \in Nicks, c \in Chans :
        \E rank \in Ranks(State, u, {c}) :
            /\ ~panicked
            /\ Install(partCallback(State, u, c, rank), Event("PART", u = currentNick))

Kick ==
    \E u \in Nicks, c \in Chans :
        \E rank \in Ranks(State, u, {c}) :
            /\ ~panicked
            /\ Install(kickCallback(State, u, c, rank), Event("KICK", u = currentNick))

Quit ==
    \E u \in Nicks :
        \E channels \in Perms(ChannelsOf(State, u)) :
            \E rank \in Ranks(State, u, ChannelsOf(State, u)) :
                /\ ~panicked
                /\ Install(quitCallback(State, u, channels, rank), Event("QUIT", u = currentNick))

Nick ==
    \E old \in Nicks, new \in Nicks :
        \E order \in Perms(ChannelsOf(State, old)) :
            /\ ~panicked
            /\ Install(nickCallback(State, old, new, order), Event("NICK", old = currentNick))

Welcome ==
    \E n \in Nicks, order \in WelcomeOrders :
        /\ ~panicked
        /\ Install(callback001(State, n, order),
                   [Event("001", FALSE) EXCEPT
                       !.full = Users # EmptyMap /\ isupport # EmptyMap])

MyInfo ==
    \E umodes \in UModes004 :
        /\ ~panicked
        /\ Install(callback004(State, umodes), Event("004", FALSE))

ISupport005 ==
    \E tokens \in Msgs005 :
        /\ ~panicked
        /\ Install(callback005(State, <<currentNick>> \o tokens \o <<TrailingSupported>>),
                   Event("005", FALSE))

\* a 005 of a server whose mode classes and permission modes overlap
ISupportOverlap ==
    \E tokens \in OverlapMsgs005 :
        /\ ~panicked
        /\ Install(callback005(State, <<currentNick>> \o tokens \o <<TrailingSupported>>),
                   Event("005", FALSE))

WhoReply ==
    \E flags \in Flags352 :
        /\ ~panicked
        /\ Install(callback352(State, flags), Event("352", FALSE))

NamesReply ==
    \E c \in Chans, trailing \in Names353 :
        /\ ~panicked
        /\ Install(callback353(State, c, trailing), Event("353", FALSE))

\* a 353 of a server that marks the operators and the voiced
NamesReplyPrefixed ==
    \E c \in Chans, trailing \in PrefixedNames353 :
        /\ ~panicked
        /\ Install(callback353(State, c, trailing), Event("353", FALSE))

Mode ==
    \E m \in ModeMsgs :
        /\ ~panicked
        /\ Install(modeCallback(State, m[1], m[2], m[3]), Event("MODE", FALSE))

\* The events that change the membership store or what it is keyed and
\* parsed with.
Next ==
    \/ Join
    \/ Part
    \/ Kick
    \/ Quit
    \/ Nick
    \/ Welcome
    \/ ISupport005
    \/ NamesReply

Spec == Init /\ [][Next]_vars

\* The session and its capabilities: 001, 004 and 005, the replies and MODE,
\* with JOIN and 353 filling the store that 001 empties.
NextCaps ==
    \/ Welcome
    \/ MyInfo
    \/ ISupport005
    \/ WhoReply
    \/ NamesReplyPrefixed
    \/ Mode
    \/ Join

SpecCaps == Init /\ [][NextCaps]_vars

\* The membership store alone: the session is established (001 received for
\* some nickname) and only JOIN, PART, KICK, QUIT and NICK follow.
InitStore ==
    \E n \in Nicks, order \in WelcomeOrders :
      \E s \in { NewStatePlugin(order) } :
        LET t == callback001(s, n, order)
        IN  /\ currentNick  = t.currentNick
            /\ userModes    = t.userModes
            /\ chanTypes    = t.chanTypes
            /\ chanModes    = t.chanModes
            /\ isupport     = t.isupport
            /\ prefixModes  = t.prefixModes
            /\ modePrefixes = t.modePrefixes
            /\ Channels     = t.Channels
            /\ Users        = t.Users
            /\ panicked     = t.panicked
            /\ writes       = t.writes
            /\ effects      = t.effects
            /\ last         = Event("001", FALSE)

NextStore ==
    \/ Join
    \/ Part
    \/ Kick
    \/ Quit
    \/ Nick

SpecStore == InitStore /\ [][NextStore]_vars

\* Leaving channels with several members: after a 001, JOIN and 353 fill
\* the channels (a 353 with prefixes the bot does not know yet registers the
\* prefixed names), and PART and KICK empty them.
NextLeave ==
    \/ Join
    \/ NamesReplyPrefixed
    \/ Part
    \/ Kick

SpecLeave == InitStore /\ [][NextLeave]_vars

\* MODE under changing capabilities: 001 and the 005 of two servers, one
\* with disjoint mode classes and one with overlapping ones, JOIN and MODE.
NextModes ==
    \/ Welcome
    \/ ISupport005
    \/ ISupportOverlap
    \/ Join
    \/ Mode

SpecModes == Init /\ [][NextModes]_vars

-----------------------------------------------------------------------------
(* Properties.  A property of a handler is stated over every call of the   *)
(* handler in the current state: the handler applied to State is what the  *)
(* corresponding action installs.  The calls range over all of NickPool    *)
(* and ChanPool, so also over names no event of the state machine uses.    *)

AllNicks == { NickPool[i] : i \in 1..Len(NickPool) }

AllChans == { ChanPool[i] : i \in 1..Len(ChanPool) }

Norm(name) == Normalize(isupport, name)

\* both directions of the user <-> channel relation of s agree
CrossReferenced(s) ==
    /\ \A c \in DOMAIN s.Channels : \A u \in s.Channels[c] :
          u \in DOMAIN s.Users /\ c \in s.Users[u]
    /\ \A u \in DOMAIN s.Users : \A c \in s.Users[u] :
          c \in DOMAIN s.Channels /\ u \in s.Channels[c]

\* C1: after any sequence of JOIN, PART, KICK, QUIT and NICK events, u is in
\* Channels[c].Users if and only if c is in Users[u].Channels, for all u, c.
C1_CrossReference == CrossReferenced(State)

\* the results of a PART and of a KICK that remove the bot itself from c
SelfLeaves(c) ==
    { partCallback(State, currentNick, c, rank) : rank \in Ranks(State, currentNick, {c}) }
    \cup
    { kickCallback(State, currentNick, c, rank) : rank \in Ranks(State, currentNick, {c}) }

\* C2: when the bot itself (the actor is the current nick) is removed from c
\* by PART or KICK, then afterwards c is absent from Channels, no user has c
\* in its channel set, every user whose only channel was c is absent from
\* Users, and every user that is also in another channel remains with its
\* other memberships intact.
C2_SelfLeaveTeardown ==
    ~panicked =>
    \A c \in AllChans : \A t \in SelfLeaves(c) :
        /\ Norm(c) \notin DOMAIN t.Channels
        /\ \A u \in DOMAIN t.Users : Norm(c) \notin t.Users[u]
        /\ \A u \in DOMAIN Users :
              /\ Users[u] = {Norm(c)} => u \notin DOMAIN t.Users
              /\ Users[u] \ {Norm(c)} # {} =>
                    u \in DOMAIN t.Users /\ t.Users[u] = Users[u] \ {Norm(c)}
        /\ \A d \in DOMAIN Channels \ {Norm(c)} :
              d \in DOMAIN t.Channels /\ t.Channels[d] = Channels[d]

\* the bot has just left a channel, and a user it shared that or another
\* channel with is still known
C2_Witness ==
    /\ last.kind \in {"PART", "KICK"}
    /\ last.self
    /\ currentNick # <<>>
    /\ Norm(currentNick) \notin DOMAIN Users
    /\ \E u \in DOMAIN Users : Users[u] # {}
    /\ \E c \in DOMAIN Channels : Channels[c] # {}

\* the channels of Channels that are not in the Channels of the result t
Destroyed(t) == DOMAIN Channels \ DOMAIN t.Channels

\* C3: a channel entity is destroyed only by the bot's own departure from it
\* or by 001: a PART or KICK destroys at most the channel it names, and only
\* when it removes the bot itself; a QUIT destroys at most the channels of
\* the user, and only when the bot itself quits; every other event but 001
\* keeps every channel, also one whose member set it empties.
C3_ChannelKept ==
    ~panicked =>
    /\ \A u \in AllNicks, d \in AllChans :
          /\ Destroyed(joinCallback(State, u, d)) = {}
          /\ \A rank \in Ranks(State, u, {d}) :
                /\ Destroyed(partCallback(State, u, d, rank))
                      \subseteq (IF u = currentNick THEN {Norm(d)} ELSE {})
                /\ Destroyed(kickCallback(State, u, d, rank))
                      \subseteq (IF u = currentNick THEN {Norm(d)} ELSE {})
    /\ \A u \in AllNicks :
          \A channels \in Perms(ChannelsOf(State, u)) :
              \A rank \in Ranks(State, u, ChannelsOf(State, u)) :
                  Destroyed(quitCallback(State, u, channels, rank))
                      \subseteq (IF u = currentNick THEN ChannelsOf(State, u) ELSE {})
    /\ \A old \in AllNicks, new \in AllNicks :
          \A order \in Perms(ChannelsOf(State, old)) :
              Destroyed(nickCallback(State, old, new, order)) = {}
    /\ \A umodes \in UModes004 : Destroyed(callback004(State, umodes)) = {}
    /\ \A tokens \in Msgs005 :
          Destroyed(callback005(State, <<currentNick>> \o tokens \o <<TrailingSupported>>)) = {}
    /\ \A flags \in Flags352 : Destroyed(callback352(State, flags)) = {}
    /\ \A d \in AllChans, trailing \in Names353 :
          Destroyed(callback353(State, d, trailing)) = {}
    /\ \A m \in ModeMsgs : Destroyed(modeCallback(State, m[1], m[2], m[3])) = {}

\* a user other than the bot has just left, and a channel is known with no
\* member left
C3_Witness ==
    /\ last.kind \in {"PART", "KICK", "QUIT"}
    /\ ~last.self
    /\ currentNick # <<>>
    /\ \E c \in DOMAIN Channels : Channels[c] = {}
    /\ Users = EmptyMap

\* C4: after every fully processed event, every user entity in Users has a
\* non-empty channel set.
C4_UserLifetime == \A u \in DOMAIN Users : Users[u] # {}

\* what C5 says of a NICK old -> new that took s to t
Renamed(s, old, new, t) ==
    LET nOld == Normalize(s.isupport, old)
        nNew == Normalize(s.isupport, new)
    IN  /\ nOld \notin DOMAIN t.Users
        /\ nNew \in DOMAIN t.Users
        /\ t.Users[nNew] = s.Users[nOld]
        /\ DOMAIN t.Users = (DOMAIN s.Users \ {nOld}) \cup {nNew}
        /\ \A u \in DOMAIN s.Users \ {nOld} : t.Users[u] = s.Users[u]
        /\ DOMAIN t.Channels = DOMAIN s.Channels
        /\ \A c \in DOMAIN s.Channels :
              t.Channels[c] = IF nOld \in s.Channels[c]
                              THEN (s.Channels[c] \ {nOld}) \cup {nNew}
                              ELSE s.Channels[c]
        /\ t.currentNick = IF old = s.currentNick THEN new ELSE s.currentNick

\* C5: after NICK old -> new, with old a known user and new not a known user,
\* Users[old] is absent, Users[new] has exactly the channel set old had,
\* every channel that contained old contains new instead, nothing else
\* changes, and the current identity is new if it was old.
C5_Rename ==
    ~panicked =>
    \A old \in AllNicks, new \in AllNicks :
        (Norm(old) \in DOMAIN Users /\ Norm(new) \notin DOMAIN Users) =>
            \A order \in Perms(ChannelsOf(State, old)) :
                Renamed(State, old, new, nickCallback(State, old, new, order))

\* C6: after QUIT of name, name is absent from Users and from every
\* channel's member set, for every name, known or not; if name is the bot,
\* every channel the bot was in is absent from Channels; the other channels
\* are still there.
C6_Quit ==
    ~panicked =>
    \A name \in AllNicks :
        \A channels \in Perms(ChannelsOf(State, name)) :
            \A rank \in Ranks(State, name, ChannelsOf(State, name)) :
                LET t == quitCallback(State, name, channels, rank)
                IN  /\ Norm(name) \notin DOMAIN t.Users
                    /\ \A c \in DOMAIN t.Channels : Norm(name) \notin t.Channels[c]
                    /\ name = currentNick =>
                          \A c \in ChannelsOf(State, name) : c \notin DOMAIN t.Channels
                    /\ \A c \in DOMAIN Channels \ ChannelsOf(State, name) :
                          c \in DOMAIN t.Channels

\* C7: a JOIN of a user other than the bot to a channel the bot is not a
\* member of changes nothing and emits no WHO request.
C7_JoinIgnored ==
    ~panicked =>
    \A u \in AllNicks, c \in AllChans :
        (u # currentNick /\ ~UserInChannel(State, currentNick, c)) =>
            joinCallback(State, u, c) = State

\* a JOIN of another user has just been ignored: nothing was written, and
\* there is a channel the bot is not in
C7_Witness ==
    /\ last.kind = "JOIN"
    /\ ~last.self
    /\ writes = <<>>
    /\ currentNick # <<>>
    /\ \E c \in AllChans : ~UserInChannel(State, currentNick, c)

\* "WHO :" followed by name
WhoLine(name) == <<87,72,79,32,58>> \o name

\* C8: a JOIN by the bot to c adds the bot to c and emits exactly WHO c; a
\* JOIN by another user u to a channel the bot is in adds u to c and emits
\* exactly WHO u; no other handler emits a request: none is written by the
\* event just handled unless it was a JOIN, nor by a MODE, 352 or 004 handled
\* now.
C8_JoinRequests ==
    ~panicked =>
    /\ \A u \in AllNicks \cup {currentNick}, c \in AllChans :
          (u = currentNick \/ UserInChannel(State, currentNick, c)) =>
              LET t == joinCallback(State, u, c)
              IN  /\ t.writes = << WhoLine(IF u = currentNick THEN c ELSE u) >>
                  /\ Norm(u) \in Members(t, c)
                  /\ Norm(c) \in ChannelsOf(t, u)
    /\ last.kind # "JOIN" => writes = <<>>
    /\ \A m \in ModeMsgs : modeCallback(State, m[1], m[2], m[3]).writes = <<>>
    /\ \A flags \in Flags352 : callback352(State, flags).writes = <<>>
    /\ \A umodes \in UModes004 : callback004(State, umodes).writes = <<>>

\* another user has just joined a channel the bot is in, and WHO was written
\* for that user
C8_Witness ==
    /\ last.kind = "JOIN"
    /\ ~last.self
    /\ \E u \in Nicks : u # currentNick /\ writes = << WhoLine(u) >>
    /\ \E c \in DOMAIN Channels : Cardinality(Channels[c]) >= 2

\* the state at session start
StartState == NewStatePlugin(DefaultKeyList)

\* C9: 001 with nickname n in any reachable state leaves the current
\* identity n and everything else as it was at session start: no user, no
\* channel, no advertised capability (every key resolves to its static
\* default), and mode classes, channel types and prefix maps as at start.
C9_WelcomeResets ==
    ~panicked =>
    \A n \in AllNicks, order \in WelcomeOrders :
        LET t == callback001(State, n, order)
        IN  /\ t = [StartState EXCEPT !.currentNick = n]
            /\ t.Users = EmptyMap /\ t.Channels = EmptyMap
            /\ \A k \in DOMAIN isupportDefaults :
                  ISupport(t.isupport, k) = isupportDefaults[k]

\* 001 has just been handled in a state with users and advertised
\* capabilities
C9_Witness ==
    /\ last.kind = "001"
    /\ last.full
    /\ currentNick \in Nicks
    /\ Users = EmptyMap /\ Channels = EmptyMap /\ isupport = EmptyMap

\* C10: at session start and after every 001, before any 005 of the server,
\* the prefix table is exactly o <-> @, v <-> + and the channel-type set is
\* exactly {#, &}, so that "#x" is a channel name.
C10_BootstrapDefaults ==
    last.kind \in {"NEW", "001"} =>
        /\ modePrefixes = (111 :> 64) @@ (118 :> 43)
        /\ prefixModes = (64 :> 111) @@ (43 :> 118)
        /\ chanTypes = {35, 38}
        /\ IsChannel(State, <<35,120>>)

-----------------------------------------------------------------------------
(* Capabilities.                                                           *)

\* the token KEY=VALUE of a 005
Tok(key, value) == key \o <<61>> \o value

\* the token -KEY of a 005
Reset(key) == <<45>> \o key

\* s after a 005 of the server with the tokens `tokens`
Supported(s, tokens) ==
    callback005(s, <<s.currentNick>> \o tokens \o <<TrailingSupported>>)

\* "NICKLEN", "nicklen"
KeyNickLen == <<78,73,67,75,76,69,78>>

KeyNickLenLower == <<110,105,99,107,108,101,110>>

\* "KNOCK", "knock": a key without a static default
KeyKnock == <<75,78,79,67,75>>

KeyKnockLower == <<107,110,111,99,107>>

\* C11: after a 005 with KEY=VALUE, isupport(KEY) is VALUE; after a following
\* -KEY it is the static default of KEY, or empty when there is none; in
\* whichever letter case the key was advertised and is queried. After
\* NICKLEN=30, isupport("NICKLEN") is "30", and after -NICKLEN it is "9".
C11_Resolution ==
    ~panicked =>
    \A adv \in {KeyNickLen, KeyNickLenLower}, q \in {KeyNickLen, KeyNickLenLower} :
      \A adk \in {KeyKnock, KeyKnockLower}, qk \in {KeyKnock, KeyKnockLower} :
        LET set   == Supported(State, << Tok(adv, <<51,48>>), Tok(adk, <<49>>) >>)
            reset == Supported(set, << Reset(adv), Reset(adk) >>)
        IN  /\ ISupport(set.isupport, q) = <<51,48>>
            /\ ISupport(set.isupport, qk) = <<49>>
            /\ ISupport(reset.isupport, q) = <<57>>
            /\ ISupport(reset.isupport, qk) = <<>>

\* "CHANMODES"
KeyChanModesUpper == <<67,72,65,78,77,79,68,69,83>>

\* C12: -CHANMODES after CHANMODES=a,b,c,d rebuilds the mode classes from
\* the resolved default; there is no default for CHANMODES, so all four mode
\* classes are empty afterwards.
C12_ChanModesReset ==
    ~panicked =>
    LET set   == Supported(State, << Tok(KeyChanModesUpper, <<97,44,98,44,99,44,100>>) >>)
        reset == Supported(set, << Reset(KeyChanModesUpper) >>)
    IN  reset.chanModes = << <<>>, <<>>, <<>>, <<>> >>

\* "foo"
ValOther == <<102,111,111>>

\* C13: the fold follows the advertised CASEMAPPING: after CASEMAPPING=ascii
\* only A-Z fold, so "[" stays; after CASEMAPPING=strict-rfc1459 A-] fold, so
\* "]" folds and "^" stays; after any other value, and after a reset, A-^
\* fold.
C13_CaseMappingSelection ==
    ~panicked =>
    LET ascii  == Supported(State, << Tok(KeyCaseMapping, ValAscii) >>)
        strict == Supported(State, << Tok(KeyCaseMapping, ValStrictRFC1459) >>)
        other  == Supported(State, << Tok(KeyCaseMapping, ValOther) >>)
        reset  == Supported(ascii, << Reset(KeyCaseMapping) >>)
    IN  /\ Normalize(ascii.isupport, <<65,91,93,94>>) = <<97,91,93,94>>
        /\ ToUpper(ascii.isupport, <<97,123,125,126>>) = <<65,123,125,126>>
        /\ Normalize(strict.isupport, <<65,91,93,94>>) = <<97,123,125,94>>
        /\ ToUpper(strict.isupport, <<97,123,125,126>>) = <<65,91,93,126>>
        /\ Normalize(other.isupport, <<65,91,93,94>>) = <<97,123,125,126>>
        /\ Normalize(reset.isupport, <<65,91,93,94>>) = <<97,123,125,126>>
        /\ Normalize(isupport, <<65,91,93,94>>) = <<97,123,125,126>>

\* "PREFIX"
KeyPrefixUpper == <<80,82,69,70,73,88>>

\* PREFIX values that parse: "(ov)@+", "(qaohv)~&@%+", "(oo)@+", "(ov)@@"
PrefixValues ==
    { <<40,111,118,41,64,43>>,
      <<40,113,97,111,104,118,41,126,38,64,37,43>>,
      <<40,111,111,41,64,43>>,
      <<40,111,118,41,64,64>> }

\* PREFIX values that do not parse: "ov@+", "(ov)", "(ov)@", "(o)@+", ""
MalformedPrefixes ==
    { <<111,118,64,43>>,
      <<40,111,118,41>>,
      <<40,111,118,41,64>>,
      <<40,111,41,64,43>>,
      <<>> }

\* value has a parenthesised mode run and a prefix run of the same length
ParsesAsPrefix(value) ==
    /\ FindPrefixSubmatch(value) # <<>>
    /\ Len(FindPrefixSubmatch(value)[1]) = Len(FindPrefixSubmatch(value)[2])

\* the two prefix maps of s are inverse to each other
PrefixBijection(s) ==
    /\ \A m \in DOMAIN s.modePrefixes :
          /\ s.modePrefixes[m] \in DOMAIN s.prefixModes
          /\ s.prefixModes[s.modePrefixes[m]] = m
    /\ \A p \in DOMAIN s.prefixModes :
          /\ s.prefixModes[p] \in DOMAIN s.modePrefixes
          /\ s.modePrefixes[s.prefixModes[p]] = p
    /\ Cardinality(DOMAIN s.modePrefixes) = Cardinality(DOMAIN s.prefixModes)

\* C14: after a 005 whose PREFIX value parses (a mode run and a prefix run of
\* equal length, also with a repeated character), prefixModes and
\* modePrefixes are inverse to each other and have the same number of entries.
C14_PrefixBijection ==
    ~panicked =>
    \A value \in PrefixValues :
        ParsesAsPrefix(value) =>
            PrefixBijection(Supported(State, << Tok(KeyPrefixUpper, value) >>))

\* C15: a 005 whose PREFIX value does not parse leaves prefixModes and
\* modePrefixes as they were before the message.
C15_MalformedPrefixKept ==
    ~panicked =>
    \A value \in MalformedPrefixes :
        ~ParsesAsPrefix(value) =>
            LET t == Supported(State, << Tok(KeyPrefixUpper, value) >>)
            IN  /\ t.prefixModes = prefixModes
                /\ t.modePrefixes = modePrefixes

-----------------------------------------------------------------------------
(* MODE.                                                                   *)

\* the characters of a mode class of s
ClassChars(s, i) == { s.chanModes[i][j] : j \in 1..Len(s.chanModes[i]) }

\* the mode characters s knows: those of the four classes and the
\* permission modes
ModeChars(s) == UNION { ClassChars(s, i) : i \in 1..4 } \cup DOMAIN s.modePrefixes

\* no mode character of s is in two classes, or in a class and a permission
\* mode
ClassesDisjoint(s) ==
    /\ \A i, j \in 1..4 : i # j => ClassChars(s, i) \cap ClassChars(s, j) = {}
    /\ \A i \in 1..4 : ClassChars(s, i) \cap DOMAIN s.modePrefixes = {}

\* what the classes say of v under the polarity pol: it takes a parameter
TakesParam(s, v, pol) ==
    \/ v \in ClassChars(s, 1) \cup ClassChars(s, 2)
    \/ v \in ClassChars(s, 3) /\ pol = 43
    \/ v \in DOMAIN s.modePrefixes

\* the polarity, character and parameter of every effect of out
Brief(out) ==
    [i \in 1..Len(out) |-> <<out[i].state, out[i].mode, out[i].param>>]

\* the effects the consumption rules give the mode string pol1 v pol2 w with
\* the parameters ps: a character that takes a parameter gets the next one,
\* and is skipped when there is none
ExpectedEffects(s, pol1, v, pol2, w, ps) ==
    LET t1   == TakesParam(s, v, pol1)
        t2   == TakesParam(s, w, pol2)
        e1   == IF ~t1 THEN << <<pol1, v, <<>> >> >>
                ELSE IF Len(ps) >= 1 THEN << <<pol1, v, <<ps[1]>> >> >>
                ELSE <<>>
        rest == IF t1 /\ Len(ps) >= 1 THEN Tail(ps) ELSE ps
        e2   == IF ~t2 THEN << <<pol2, w, <<>> >> >>
                ELSE IF Len(rest) >= 1 THEN << <<pol2, w, <<rest[1]>> >> >>
                ELSE <<>>
    IN  e1 \o e2

\* the effects of MODE #x pol1 v pol2 w with the parameters ps are those the
\* consumption rules give, for all known mode characters v, w and polarities
ModeAsExpected(ps) ==
    \A v \in ModeChars(State), w \in ModeChars(State) :
      \A pol1 \in {43, 45}, pol2 \in {43, 45} :
        Brief(modeCallback(State, <<35,120>>, <<pol1, v, pol2, w>>, ps).effects)
            = ExpectedEffects(State, pol1, v, pol2, w, ps)

\* C16: on a channel target, with enough parameters, a character of class A
\* or B takes exactly one parameter under + and -, one of class C one under +
\* and none under -, one of class D none, a permission mode one under + and
\* -, and each effect carries the parameter taken for it; with the prefixes
\* (ov)@+, MODE #x +o-v alice bob yields (+, o, alice) then (-, v, bob).
C16_ParamConsumption ==
    (~panicked /\ IsChannel(State, <<35,120>>) /\ ClassesDisjoint(State)) =>
        /\ ModeAsExpected(<< <<97>>, <<98>> >>)
        /\ (modePrefixes = (111 :> 64) @@ (118 :> 43)) =>
              Brief(modeCallback(State, <<35,120>>, <<43,111,45,118>>,
                                 << <<97,108,105,99,101>>, <<98,111,98>> >>).effects)
                  = << <<43, 111, << <<97,108,105,99,101>> >> >>,
                       <<45, 118, << <<98,111,98>> >> >> >>

\* MODE #x +o-v a b has just been handled with the prefixes (ov)@+ and
\* reported (+, o, a) and (-, v, b)
C16_Witness ==
    /\ last.kind = "MODE"
    /\ IsChannel(State, <<35,120>>)
    /\ ClassChars(State, 3) # {}
    /\ Brief(effects) = << <<43, 111, << <<97>> >> >>, <<45, 118, << <<98>> >> >> >>

\* C17: when a mode character needs a parameter and none is left, it has no
\* effect and the characters after it are still handled: those that need no
\* parameter have their effects; and no effect carries a parameter that was
\* not among those of the message.
C17_Starvation ==
    (~panicked /\ IsChannel(State, <<35,120>>) /\ ClassesDisjoint(State)) =>
        /\ ModeAsExpected(<<>>)
        /\ ModeAsExpected(<< <<97>> >>)
        /\ \A m \in ModeMsgs :
              LET out == modeCallback(State, m[1], m[2], m[3]).effects
              IN  \A i \in 1..Len(out) :
                    out[i].param = <<>> \/
                    \E j \in 1..Len(m[3]) : out[i].param = <<m[3][j]>>

\* MODE #x +ko-l+n a has just been handled: k took the only parameter, o
\* was skipped, and -l and +n were reported
C17_Witness ==
    /\ last.kind = "MODE"
    /\ IsChannel(State, <<35,120>>)
    /\ Brief(effects) = << <<43, 107, << <<97>> >> >>, <<45, 108, <<>> >>, <<43, 110, <<>> >> >>

-----------------------------------------------------------------------------
(* Channel names, idempotence and the folds.                               *)

\* "CHANTYPES"
KeyChanTypesUpper == <<67,72,65,78,84,89,80,69,83>>

\* names to classify: "", "#x", "&y", "!x", "x!", "x#", "+z", "b"
TestNames ==
    { <<>>, <<35,120>>, <<38,121>>, <<33,120>>, <<120,33>>, <<120,35>>,
      <<43,122>>, <<98>> }

C19_Idempotence ==
    ~panicked =>
    \A u \in AllNicks, c \in AllChans :
        LET once  == ensureUserInChannel(State, u, c)
            twice == ensureUserInChannel(once, u, c)
        IN  /\ twice.Users = once.Users
            /\ twice.Channels = once.Channels
            /\ Norm(u) \in Members(once, c)
            /\ Norm(c) \in ChannelsOf(once, u)

\* a user has just joined a channel the bot is in
C19_Witness ==
    /\ last.kind = "JOIN"
    /\ ~last.self
    /\ \E c \in DOMAIN Channels : Cardinality(Channels[c]) >= 2
    /\ \E u \in DOMAIN Users : Cardinality(Users[u]) >= 2

\* the code points the folds are checked on
MaxRune == 255

\* C20: the ascii lower fold maps 65..90 to r+32, the strict-rfc1459 one
\* 65..93, the rfc1459 one 65..94, and every other r to itself; the upper
\* folds map 97..122, 97..125 and 97..126 to r-32 and every other r to
\* itself.
C20_FoldRanges ==
    ~panicked =>
    \A r \in 0..MaxRune :
        /\ ASCIIToLower(r) = IF r \in 65..90 THEN r + 32 ELSE r
        /\ StrictRFC1459ToLower(r) = IF r \in 65..93 THEN r + 32 ELSE r
        /\ RFC1459ToLower(r) = IF r \in 65..94 THEN r + 32 ELSE r
        /\ ASCIIToUpper(r) = IF r \in 97..122 THEN r - 32 ELSE r
        /\ StrictRFC1459ToUpper(r) = IF r \in 97..125 THEN r - 32 ELSE r
        /\ RFC1459ToUpper(r) = IF r \in 97..126 THEN r - 32 ELSE r

\* the bot, known to the server as "B", has joined a channel and is kept
\* under the folded name "b"
C20_Witness ==
    /\ last.kind = "JOIN"
    /\ currentNick = <<66>>
    /\ <<98>> \in DOMAIN Users
    /\ <<66>> \notin DOMAIN Users

-----------------------------------------------------------------------------
(* The round trip of the folds.                                            *)

\* how long the strings of the round trip are
MaxLen == 3

\* the letters the strings are made of: "a", "z", "A", "Z"
SomeLetters == {97, 122, 65, 90}

\* the ASCII letters
Letters == (65..90) \cup (97..122)

\* the strings of at most MaxLen letters of SomeLetters, and every one-letter
\* string
LetterStrings ==
    UNION { [1..n -> SomeLetters] : n \in 0..MaxLen } \cup { <<r>> : r \in Letters }

\* strings.Map(ASCIIToLower, name)
MapASCIIToLower(name) == [i \in 1..Len(name) |-> ASCIIToLower(name[i])]

\* strings.Map(ASCIIToUpper, name)
MapASCIIToUpper(name) == [i \in 1..Len(name) |-> ASCIIToUpper(name[i])]

\* C21: for every string s of ASCII letters, the ascii lower fold of the
\* ascii upper fold of s is the ascii lower fold of s; and so it is with
\* ToLower and ToUpper of the engine after a 005 has advertised
\* CASEMAPPING=ascii.
C21_RoundTrip ==
    ~panicked =>
    \A ascii \in { Supported(State, << Tok(KeyCaseMapping, ValAscii) >>).isupport } :
        \A s \in LetterStrings :
          /\ MapASCIIToLower(MapASCIIToUpper(s)) = MapASCIIToLower(s)
          /\ ToLower(ascii, ToUpper(ascii, s)) = ToLower(ascii, s)

\* a 005 has advertised CASEMAPPING=ascii, and a user named "B" by the
\* server is kept under "b", the lower fold of the upper fold of "b"
C21_Witness ==
    /\ last.kind = "005"
    /\ \E k \in DOMAIN isupport : isupport[k] = ValAscii
    /\ <<98>> \in DOMAIN Users
    /\ <<66>> \notin DOMAIN Users
    /\ MapASCIIToLower(MapASCIIToUpper(<<98>>)) \in DOMAIN Users

-----------------------------------------------------------------------------
(* Failures.                                                               *)

\* C22: no event drives the engine into a failure, whatever its content:
\* not a 352 with empty flags, a 353 with an empty name list, a MODE without
\* parameters, nor a NICK, QUIT, PART or KICK for a user or channel never
\* seen before.
C22_NoHardFailure == ~panicked

-----------------------------------------------------------------------------
(* NAMES.                                                                  *)

\* the names of the scenario: "#test", "alice", "bob", "carol"
ChanTest == <<35,116,101,115,116>>

NickAlice == <<97,108,105,99,101>>

NickBob == <<98,111,98>>

NickCarol == <<99,97,114,111,108>>

\* "@alice +bob carol"
NamesScenario == <<64>> \o NickAlice \o <<32,43>> \o NickBob \o <<32>> \o NickCarol

\* name lists to register: the scenario, "@+a B", "+@B", "a@b +", "c"
TestTrailings ==
    { NamesScenario, <<64,43,97,32,66>>, <<43,64,66>>, <<97,64,98,32,43>>, <<99>> }

\* tok without its leading run of keys of the prefix -> mode map of s
StripPrefixes(s, tok) ==
    LET k == CHOOSE i \in 1..(Len(tok) + 1) :
                /\ \A j \in 1..(i-1) : tok[j] \in DOMAIN s.prefixModes
                /\ i <= Len(tok) => tok[i] \notin DOMAIN s.prefixModes
    IN  SubSeq(tok, k, Len(tok))

\* the normalized nicknames of the space-separated tokens of trailing
NamesOf(s, trailing) ==
    LET toks == Split(trailing, 32)
    IN  { Normalize(s.isupport, StripPrefixes(s, toks[i])) : i \in 1..Len(toks) }

\* C23: a 353 for channel c registers, for each space-separated token of its
\* trailing parameter, the token without its leading run of prefix
\* characters as a member of c, on both sides of the relation, and creates
\* and changes nothing else; with the prefix map @ -> o, + -> v, the list
\* "@alice +bob carol" for #test makes alice, bob and carol members of #test
\* and creates no user "@alice".
C23_Names ==
    ~panicked =>
    /\ \A c \in AllChans \cup {ChanTest}, trailing \in TestTrailings :
          LET t == callback353(State, c, trailing)
              names == NamesOf(State, trailing)
          IN  /\ DOMAIN t.Users = DOMAIN Users \cup names
              /\ DOMAIN t.Channels = DOMAIN Channels \cup {Norm(c)}
              /\ t.Channels[Norm(c)] = Members(State, c) \cup names
              /\ \A n \in names :
                    t.Users[n] = (IF n \in DOMAIN Users THEN Users[n] ELSE {}) \cup {Norm(c)}
              /\ \A u \in DOMAIN Users \ names : t.Users[u] = Users[u]
              /\ \A d \in DOMAIN Channels \ {Norm(c)} : t.Channels[d] = Channels[d]
    /\ prefixModes = (64 :> 111) @@ (43 :> 118) =>
          LET t == callback353(State, ChanTest, NamesScenario)
          IN  /\ {NickAlice, NickBob, NickCarol} \subseteq Members(t, ChanTest)
              /\ \A n \in {NickAlice, NickBob, NickCarol} : Norm(ChanTest) \in ChannelsOf(t, n)
              /\ (<<64>> \o NickAlice) \notin DOMAIN t.Users
              /\ (<<43>> \o NickBob) \notin DOMAIN t.Users

\* a 353 with the names "@a +B" has just been handled with the prefix map
\* @ -> o, + -> v: a and b are members of a channel, and no user is kept
\* under a prefixed name
C23_Witness ==
    /\ last.kind = "353"
    /\ prefixModes = (64 :> 111) @@ (43 :> 118)
    /\ \E c \in DOMAIN Channels : {<<97>>, <<98>>} \subseteq Channels[c]
    /\ \A u \in DOMAIN Users : Users[u] # {} /\ u[1] \notin {64, 43}

-----------------------------------------------------------------------------
(* The bot's own events.                                                   *)

\* C24: an event whose actor is the current nick up to the fold (current
\* nick "B", PART by "b") is the bot's own: a PART or KICK of such a name
\* from c tears c down, a JOIN by it asks for the whole channel, and a NICK
\* by it changes the current nick.
C24_NormalizedSelf ==
    ~panicked =>
    \A u \in AllNicks, c \in AllChans :
        (currentNick # <<>> /\ Norm(u) = Norm(currentNick)) =>
            /\ \A rank \in Ranks(State, u, {c}) :
                  /\ Norm(c) \notin DOMAIN partCallback(State, u, c, rank).Channels
                  /\ Norm(c) \notin DOMAIN kickCallback(State, u, c, rank).Channels
            /\ joinCallback(State, u, c).writes = << WhoLine(c) >>
            /\ \A new \in AllNicks :
                  \A order \in Perms(ChannelsOf(State, u)) :
                      Norm(nickCallback(State, u, new, order).currentNick) = Norm(new)

\* the calls a removal of the bot from c makes, with the teardown loop
\* running in the order rank
TeardownOf(c, rank) == ensureUserNotInChannelAt(Traced(State), currentNick, c, rank, 1)

\* C25: the removal of the bot from c ends, in every reachable state: it
\* calls itself once for every other member of c and for nobody else, none
\* of these calls is for the bot or tears down again, so the nesting is at
\* most two, and afterwards no former member has c in its channel set.
C25_TeardownTerminates ==
    ~panicked =>
    \A c \in AllChans :
        \A rank \in Ranks(State, currentNick, {c}) :
            LET r == TeardownOf(c, rank)
                former == Members(State, c) \ {Norm(currentNick)}
            IN  /\ r.depth = IF former = {} THEN 1 ELSE 2
                /\ Len(r.calls) = 1 + Cardinality(former)
                /\ r.calls[1] = <<1, currentNick>>
                /\ \A i \in 2..Len(r.calls) :
                      /\ r.calls[i][1] = 2
                      /\ r.calls[i][2] \in former
                      /\ r.calls[i][2] # currentNick
                /\ \A u \in former :
                      /\ Cardinality({ i \in 1..Len(r.calls) : r.calls[i][2] = u }) = 1
                      /\ Norm(c) \notin ChannelsOf(r, u)
                /\ Norm(c) \notin DOMAIN r.Channels

\* the bot has just left a channel, and is still in a channel with at least
\* two other members that its removal will take with it
C25_Witness ==
    /\ last.kind \in {"PART", "KICK"}
    /\ last.self
    /\ \E c \in AllChans :
          /\ Norm(currentNick) \in Members(State, c)
          /\ Cardinality(Members(State, c)) >= 3
          /\ \E rank \in Ranks(State, currentNick, {c}) :
                Len(TeardownOf(c, rank).calls) >= 3

-----------------------------------------------------------------------------
(* MODE: targets, precedence and polarity.                                 *)

\* mode strings: "+o-v", "+ko-l+n", "b", "-i+w", "ib-lo", "", "+", "-+-",
\* "--k++", "o+"
TestModeStrings ==
    { <<43,111,45,118>>, <<43,107,111,45,108,43,110>>, <<98>>, <<45,105,43,119>>,
      <<105,98,45,108,111>>, <<>>, <<43>>, <<45,43,45>>, <<45,45,107,43,43>>,
      <<111,43>> }

\* parameter lists: none, "a", "a" "b", "a" "b" "c"
TestParams == { <<>>, << <<97>> >>, << <<97>>, <<98>> >>, << <<97>>, <<98>>, <<99>> >> }

\* the positions of ms that hold a mode character, in order
ModePositions(ms) ==
    SelectSeq([i \in 1..Len(ms) |-> i], LAMBDA i : ms[i] \notin {43, 45})

\* the polarity the nearest sign before position i of ms sets, + if none
PolarityAt(ms, i) ==
    LET signs == { j \in 1..(i-1) : ms[j] \in {43, 45} }
    IN  IF signs = {} THEN 43
        ELSE ms[CHOOSE j \in signs : \A k \in signs : k <= j]

\* one flag effect without parameter for every mode character of ms
FlagEffects(ms) ==
    LET pos == ModePositions(ms)
    IN  [k \in 1..Len(pos) |-> <<PolarityAt(ms, pos[k]), ms[pos[k]], <<>> >>]

\* C26: when the target of a MODE is not a channel name, every character of
\* the mode string but + and - yields exactly one flag effect with the
\* current polarity, whatever the mode classes and the prefix table are, and
\* no parameter is taken.
C26_UserTarget ==
    ~panicked =>
    \A target \in TestNames \cup AllNicks, ms \in TestModeStrings, ps \in TestParams :
        ~IsChannel(State, target) =>
            LET out == modeCallback(State, target, ms, ps).effects
            IN  /\ Brief(out) = FlagEffects(ms)
                /\ \A i \in 1..Len(out) : out[i].class = "user"

\* MODE b +i-o a has just been handled with o a permission mode: it set i
\* and unset o, and took no parameter
C26_Witness ==
    /\ last.kind = "MODE"
    /\ 111 \in DOMAIN modePrefixes
    /\ ClassChars(State, 1) # {}
    /\ Brief(effects) = << <<43, 105, <<>> >>, <<45, 111, <<>> >> >>

\* the first of the classes A, B, C, D and the permission modes of s that
\* has v, "none" when none has
ClassOf(s, v) ==
    IF v \in ClassChars(s, 1) THEN "list"
    ELSE IF v \in ClassChars(s, 2) THEN "key"
    ELSE IF v \in ClassChars(s, 3) THEN "limit"
    ELSE IF v \in ClassChars(s, 4) THEN "setting"
    ELSE IF v \in DOMAIN s.modePrefixes THEN "prefix"
    ELSE "none"

\* a character of class k takes a parameter under the polarity pol
ClassTakesParam(k, pol) == k \in {"list", "key", "prefix"} \/ (k = "limit" /\ pol = 43)

\* the effect of a character v of class k under pol when the parameters ps
\* are left: none for no class and for a missing parameter
EffectOf(k, pol, v, ps) ==
    IF k = "none" THEN <<>>
    ELSE IF ~ClassTakesParam(k, pol) THEN << Effect(k, pol, v, <<>>) >>
    ELSE IF ps = <<>> THEN <<>>
    ELSE << Effect(k, pol, v, <<Head(ps)>>) >>

\* the parameters left after v of class k under pol
ParamsAfter(k, pol, ps) ==
    IF ClassTakesParam(k, pol) /\ ps # <<>> THEN Tail(ps) ELSE ps

\* characters to classify besides the known ones: "z"
UnknownModes == {122}

\* C27: on a channel target a mode character belongs to the first of class
\* A, B, C, D and the permission modes that has it, and that class alone
\* decides the effect and whether a parameter is taken: a character of C and
\* D takes none under -, one of D and the permission modes never takes one,
\* and a character of none has no effect and takes nothing.
C27_Precedence ==
    (~panicked /\ IsChannel(State, <<35,120>>)) =>
    /\ \A v \in ModeChars(State) \cup UnknownModes, w \in ModeChars(State) \cup UnknownModes :
        \A pol1 \in {43, 45}, pol2 \in {43, 45} :
          \A ps \in { <<>>, << <<97>> >>, << <<97>>, <<98>> >> } :
            LET k1 == ClassOf(State, v)
                k2 == ClassOf(State, w)
            IN  modeCallback(State, <<35,120>>, <<pol1, v, pol2, w>>, ps).effects
                  = EffectOf(k1, pol1, v, ps) \o EffectOf(k2, pol2, w, ParamsAfter(k1, pol1, ps))
    /\ \A v \in (ClassChars(State, 3) \cap ClassChars(State, 4)) \ (ClassChars(State, 1) \cup ClassChars(State, 2)) :
          modeCallback(State, <<35,120>>, <<45, v>>, << <<97>> >>).effects
              = << Effect("limit", 45, v, <<>>) >>
    /\ \A v \in (ClassChars(State, 4) \cap DOMAIN modePrefixes)
                    \ (ClassChars(State, 1) \cup ClassChars(State, 2) \cup ClassChars(State, 3)) :
          \A pol \in {43, 45} :
              modeCallback(State, <<35,120>>, <<pol, v>>, << <<97>> >>).effects
                  = << Effect("setting", pol, v, <<>>) >>
    /\ \A v \in UnknownModes \ ModeChars(State) :
          modeCallback(State, <<35,120>>, <<43, v, 45, v>>, << <<97>> >>).effects = <<>>

\* MODE #x +ko-l+n a has just been handled with the classes ab, bk, kl, lo
\* and the permission modes o, v: k was a key and took the parameter, o was
\* a setting, -l a limit without parameter, and n had no effect
C27_Witness ==
    /\ last.kind = "MODE"
    /\ IsChannel(State, <<35,120>>)
    /\ ClassChars(State, 3) \cap ClassChars(State, 4) # {}
    /\ ClassChars(State, 4) \cap DOMAIN modePrefixes # {}
    /\ effects = << Effect("key", 43, 107, << <<97>> >>),
                    Effect("setting", 43, 111, <<>>),
                    Effect("limit", 45, 108, <<>>) >>

\* the positions of ms in S, in order
Ascending(ms, S) == SelectSeq([i \in 1..Len(ms) |-> i], LAMBDA i : i \in S)

\* out reports characters of ms in the order of ms, each with the polarity
\* of the nearest sign before it
InModeOrder(ms, out) ==
    \E S \in SUBSET { i \in 1..Len(ms) : ms[i] \notin {43, 45} } :
        LET pos == Ascending(ms, S)
        IN  /\ Len(pos) = Len(out)
            /\ \A k \in 1..Len(out) :
                  /\ out[k].mode = ms[pos[k]]
                  /\ out[k].state = PolarityAt(ms, pos[k])

\* the effects of out that carry a parameter carry the parameters of ps,
\* the k-th the k-th
ParamsInOrder(ps, out) ==
    LET withParam == SelectSeq(out, LAMBDA e : e.param # <<>>)
    IN  /\ Len(withParam) <= Len(ps)
        /\ \A k \in 1..Len(withParam) : withParam[k].param = <<ps[k]>>

\* C28: the polarity is + at first, a + or - sets it and is not reported,
\* and every effect has the polarity of the nearest sign before its
\* character; the effects come in the order of the mode string, and the k-th
\* effect with a parameter has the k-th parameter, none being used twice; an
\* empty mode string and one of signs only have no effect.
C28_PolarityAndOrder ==
    ~panicked =>
    \A target \in { <<35,120>>, <<98>> }, ms \in TestModeStrings, ps \in TestParams :
        LET out == modeCallback(State, target, ms, ps).effects
        IN  /\ InModeOrder(ms, out)
            /\ ParamsInOrder(ps, out)
            /\ \A k \in 1..Len(out) : out[k].mode \notin {43, 45}
            /\ ModePositions(ms) = <<>> => out = <<>>

\* a MODE for the channel #x has just been handled that set a mode with the
\* first parameter and then unset one with the second
C28_Witness ==
    /\ last.kind = "MODE"
    /\ IsChannel(State, <<35,120>>)
    /\ Len(effects) = 2
    /\ effects[1].state = 43 /\ effects[1].param = << <<97>> >>
    /\ effects[2].state = 45 /\ effects[2].param = << <<98>> >>

-----------------------------------------------------------------------------
(* CHANMODES and the reset.                                                *)

\* CHANMODES values: "b,k,l,nt", "a,b,c,d,e", "a,b,c,d,e,f", "ab", "a,b", "",
\* ",,,", "eIb,k,,imn", "a,b,c,d,"
ChanModesValues ==
    { <<98,44,107,44,108,44,110,116>>,
      <<97,44,98,44,99,44,100,44,101>>,
      <<97,44,98,44,99,44,100,44,101,44,102>>,
      <<97,98>>,
      <<97,44,98>>,
      <<>>,
      <<44,44,44>>,
      <<101,73,98,44,107,44,44,105,109,110>>,
      <<97,44,98,44,99,44,100,44>> }

\* the i-th comma-separated group of value: its characters that have i-1
\* commas before them, in order
GroupOf(value, i) ==
    LET pos == SelectSeq([q \in 1..Len(value) |-> q],
                         LAMBDA q : /\ value[q] # 44
                                    /\ Cardinality({ j \in 1..(q-1) : value[j] = 44 }) = i - 1)
    IN  [k \in 1..Len(pos) |-> value[pos[k]]]

\* C29: a 005 that announces CHANMODES replaces the four mode classes in
\* full: the first four comma-separated groups of the value are the classes
\* A, B, C and D, what follows a fourth comma is in no class, a class without
\* a group is empty, and nothing of the classes before is kept.
C29_ChanModesRebuild ==
    ~panicked =>
    \A key \in {KeyChanModesUpper, KeyChanModes}, value \in ChanModesValues :
        LET t == Supported(State, << Tok(key, value) >>)
        IN  /\ Len(t.chanModes) = 4
            /\ \A i \in 1..4 : t.chanModes[i] = GroupOf(value, i)
            /\ \A v \in ModeChars(State) \ DOMAIN modePrefixes :
                  (\A i \in 1..4 : ~ContainsRune(GroupOf(value, i), v)) =>
                      \A i \in 1..4 : v \notin ClassChars(t, i)

\* a 005 has just announced CHANMODES=ab,bk,kl,lo after an earlier 005 had
\* announced CHANMODES=b,k,l,nt together with CASEMAPPING: the classes are
\* those of the later one, and n and t are in none
C29_Witness ==
    /\ last.kind = "005"
    /\ \E k \in DOMAIN isupport : isupport[k] = ValAscii
    /\ chanModes = << <<97,98>>, <<98,107>>, <<107,108>>, <<108,111>> >>
    /\ \A i \in 1..4 : ClassChars(State, i) \cap {110, 116} = {}

\* C30: what clear() leaves (the capability table, the mode classes, the
\* channel types and both prefix maps) is the same in whichever order the
\* keys of the defaults are ranged over for the "-KEY" message, although the
\* 005 handler passes over the first and the last parameter and the message
\* has no nickname in front.
C30_ResetDeterminism ==
    ~panicked =>
    \A order \in RangeOrders :
        LET t == clear(State, order)
            d == clear(State, DefaultKeyList)
        IN  /\ t.isupport = d.isupport
            /\ t.chanModes = d.chanModes
            /\ t.chanTypes = d.chanTypes
            /\ t.prefixModes = d.prefixModes
            /\ t.modePrefixes = d.modePrefixes
            /\ t = d

\* a 001 has just reset a state with users and advertised capabilities: no
\* capability, mode class, channel type or prefix is left
C30_Witness ==
    /\ last.kind = "001"
    /\ last.full
    /\ isupport = EmptyMap
    /\ chanModes = << <<>>, <<>>, <<>>, <<>> >>
    /\ chanTypes = {}
    /\ prefixModes = EmptyMap /\ modePrefixes = EmptyMap

====
